---- MODULE Spec2Model ----
(***************************************************************************)
(* simple-index-db: a local relational mirror of the PyPI simple index.    *)
(*                                                                         *)
(* Python strings that the program takes apart (project names, file names, *)
(* version strings, tags) are sequences of one-character strings; strings  *)
(* that are only copied (url, status, ...) are TLA+ strings, and Python's  *)
(* None is the string "None" for those.  An object reference is the index  *)
(* of the object's row in its table, 0 for None.                           *)
(***************************************************************************)
EXTENDS Integers, Sequences, FiniteSets, TLC

VARIABLES
    db,                  \* the writer's session view of the store (rows, flushed or pending)
    committed,           \* the store as of the last session.commit()
    cache,               \* the five module-level TagCache._known_tags mappings
    loaded,              \* the five TagCache._loaded flags
    merge_pc,            \* the process applying documents: "run" | "crashed"
    run_names,           \* names whose document the current process has applied
    hist,                \* history: the events executed so far, in order
    run_pc,              \* the main thread: "start" | "update" | "add" | "done"
    writer_exc,          \* the exception that left process_updates, "None" if none
    listing,             \* the projects list that get_project_list returned
    plan,                \* the tuple that find_projects_to_update returned
    project_queue,       \* per pass: the names still in the work queue
    project_info_queue,  \* per pass: the (serial, document) pairs in the result queue
    ready,               \* per pass: workers about to call input_queue.get
    in_flight,           \* per pass: names whose worker is inside client.get_project
    stopped,             \* per pass: workers that left their loop on Empty
    dead,                \* per pass: workers ended by an exception they did not catch
    num_updated_projects,\* the writer's counter in the current pass
    responses            \* history: the response each fetched name received

mergeVars == <<db, committed, cache, loaded, merge_pc, run_names, hist>>

runVars ==
    <<run_pc, writer_exc, listing, plan, project_queue, project_info_queue,
      ready, in_flight, stopped, dead, num_updated_projects, responses>>

vars == <<mergeVars, runVars>>

\* a local name for a value: Body of value
Let(value, Body(_)) == Body(value)

(***************************************************************************)
(* Strings                                                                 *)
(***************************************************************************)
Digits == {"0", "1", "2", "3", "4", "5", "6", "7", "8", "9"}

DigitVal(c) ==
    CASE c = "0" -> 0 [] c = "1" -> 1 [] c = "2" -> 2 [] c = "3" -> 3
      [] c = "4" -> 4 [] c = "5" -> 5 [] c = "6" -> 6 [] c = "7" -> 7
      [] c = "8" -> 8 [] c = "9" -> 9

\* int(s) for a string of decimal digits
RECURSIVE ToInt(_)
ToInt(s) ==
    IF s = <<>> THEN 0
    ELSE 10 * ToInt(SubSeq(s, 1, Len(s) - 1)) + DigitVal(s[Len(s)])

\* (mutation) every filename is taken for a wheel
EndsAnyhow(s, suffix) == TRUE

\* str.endswith
EndsWith(s, suffix) ==
    /\ Len(s) >= Len(suffix)
    /\ SubSeq(s, Len(s) - Len(suffix) + 1, Len(s)) = suffix

\* str.split("-")
RECURSIVE Split(_)
Split(s) ==
    IF \A i \in DOMAIN s : s[i] # "-" THEN <<s>>
    ELSE LET i == CHOOSE k \in DOMAIN s :
                      s[k] = "-" /\ \A j \in 1..(k - 1) : s[j] # "-"
         IN  <<SubSeq(s, 1, i - 1)>> \o Split(SubSeq(s, i + 1, Len(s)))

WHL == <<".", "w", "h", "l">>

Separators == {"-", "_", "."}

\* str.lower on the modelled alphabet
Lower(c) ==
    CASE c = "A" -> "a" [] c = "B" -> "b" [] c = "C" -> "c" [] OTHER -> c

\* normalize (main.py 30-40): re.sub(r"[-_.]+", "-", name).lower()
RECURSIVE normalize(_)
normalize(name) ==
    IF name = <<>> THEN <<>>
    ELSE IF Head(name) \in Separators
         THEN IF Len(name) > 1 /\ name[2] \in Separators
              THEN normalize(Tail(name))
              ELSE <<"-">> \o normalize(Tail(name))
         ELSE <<Lower(Head(name))>> \o normalize(Tail(name))

(***************************************************************************)
(* TagCache (db.py 31-64)                                                  *)
(***************************************************************************)
None == 0

Kinds == {"version", "build_tag", "python_tag", "abi_tag", "platform_tag"}

EmptyCache == [k \in Kinds |-> <<>>]

\* the _loaded flags of a process before and after load_tag_caches
NotLoaded == [k \in Kinds |-> FALSE]
AllLoaded == [k \in Kinds |-> TRUE]

\* (mutation) a cache that forgets that it was loaded
NeverLoaded(flags, kind) == FALSE

\* TagCache.is_loaded
is_loaded(flags, kind) == flags[kind]

\* TagCache.load_from_query: self._known_tags.update(tag_strings), on the
\* (key, id) pairs of the query
load_from_query(known_tags, tag_strings) ==
    [k \in (DOMAIN known_tags) \cup {pair[1] : pair \in tag_strings} |->
        IF \E pair \in tag_strings : pair[1] = k
        THEN (CHOOSE pair \in tag_strings : pair[1] = k)[2]
        ELSE known_tags[k]]

\* TagCache.get_id: dict.get(tag_str, None)
get_id(known_tags, tag_str) ==
    IF tag_str \in DOMAIN known_tags THEN known_tags[tag_str] ELSE None

\* TagCache.add: self._known_tags[tag_str] = id
add(known_tags, tag_str, id) ==
    [k \in (DOMAIN known_tags) \cup {tag_str} |->
        IF k = tag_str THEN id ELSE known_tags[k]]

(***************************************************************************)
(* The store.  A table is the sequence of its objects in creation order;   *)
(* an identity row's id is None until the session flushes it, and the      *)
(* store assigns ids in insertion order.                                   *)
(***************************************************************************)
EmptyDb ==
    [version |-> <<>>, build_tag |-> <<>>, python_tag |-> <<>>,
     abi_tag |-> <<>>, platform_tag |-> <<>>, file |-> <<>>, project |-> <<>>]

KeyOf(kind, row) == IF kind = "version" THEN row.version ELSE row.tag

\* (mutation) a store without unique constraints
NoConstraint(d) == FALSE

\* a UniqueConstraint of db.py is violated by the rows of the session
UniqueViolated(d) ==
    \/ \E k \in Kinds : \E i, j \in DOMAIN d[k] :
          i < j /\ KeyOf(k, d[k][i]) = KeyOf(k, d[k][j])
    \/ \E i, j \in DOMAIN d.file :
          i < j /\ d.file[i].filename = d.file[j].filename
    \/ \E i, j \in DOMAIN d.project :
          i < j /\ d.project[i].name = d.project[j].name

\* Session.flush: INSERT the pending rows; the store raises IntegrityError
\* on a unique-constraint violation.
Flush(d) ==
    IF UniqueViolated(d) THEN [db |-> d, raised |-> "IntegrityError"]
    ELSE LET WithIds(rows) == <<>> \o [i \in DOMAIN rows |-> [rows[i] EXCEPT !.id = i]]
             Persisted(rows) ==
                 <<>> \o [i \in DOMAIN rows |-> [rows[i] EXCEPT !.persisted = TRUE]]
         IN  [db |-> [version |-> WithIds(d.version),
                      build_tag |-> WithIds(d.build_tag),
                      python_tag |-> WithIds(d.python_tag),
                      abi_tag |-> WithIds(d.abi_tag),
                      platform_tag |-> WithIds(d.platform_tag),
                      file |-> Persisted(d.file),
                      project |-> Persisted(d.project)],
              raised |-> "None"]

\* Result of a call: the session, the caches, the returned value and the
\* exception that left the call ("None" when it returned).
Ok(d, c, ret) == [db |-> d, cache |-> c, ret |-> ret, raised |-> "None"]
Raise(d, c, exc) == [db |-> d, cache |-> c, ret |-> None, raised |-> exc]

\* (mutation) a session that does not flush before it queries
NoAutoflush(d) == [db |-> d, raised |-> "None"]

\* Session.execute of a SELECT: the session first flushes its pending rows
\* (autoflush), then the store answers from the rows it holds.
Autoflush(d) == Flush(d)

\* select(kind).filter_by(key): the stored rows with that key
SelectByKey(d, kind, key) ==
    {i \in DOMAIN d[kind] : d[kind][i].id # None /\ KeyOf(kind, d[kind][i]) = key}

\* The body shared by the five from_str classmethods: cache hit, else query
\* by unique key, else construct and add.  new_row is the row to construct,
\* or a record whose raised field names the exception that the construction
\* raises.
FromStr(C, kind, key, new_row) ==
    Let(get_id(C.cache[kind], key), LAMBDA known :
    IF known # None
    THEN Ok(C.db, C.cache, CHOOSE i \in DOMAIN C.db[kind] : C.db[kind][i].id = known)
    ELSE Let(Autoflush(C.db), LAMBDA fl :
         IF fl.raised # "None" THEN Raise(fl.db, C.cache, fl.raised)
         ELSE Let(SelectByKey(fl.db, kind, key), LAMBDA found :
              IF found # {}
              THEN Let(CHOOSE i \in found : TRUE, LAMBDA i :
                   Ok(fl.db,
                      [C.cache EXCEPT ![kind] = add(@, key, fl.db[kind][i].id)],
                      i))
              ELSE IF "raised" \in DOMAIN new_row
              THEN Raise(fl.db, C.cache, new_row.raised)
              ELSE Ok([fl.db EXCEPT ![kind] = Append(@, new_row)],
                      [C.cache EXCEPT ![kind] = add(@, key, None)],
                      Len(fl.db[kind]) + 1))))

\* packaging.version.parse accepts the string (on the modelled alphabet: it
\* starts with a digit)
IsValidVersion(version_str) ==
    version_str # <<>> /\ version_str[1] \in Digits

VersionFromStr(C, version_str) ==
    FromStr(C, "version", version_str,
            [version |-> version_str,
             is_valid_vss |-> IsValidVersion(version_str),
             id |-> None])

\* BUILD_TAG_REGEX: ^(?P<build_number>[0-9]+)(?P<build_string>.*)$
RECURSIVE LeadingDigits(_)
LeadingDigits(s) ==
    IF s = <<>> \/ Head(s) \notin Digits THEN 0
    ELSE 1 + LeadingDigits(Tail(s))

BuildTagFromStr(C, build_tag_str) ==
    IF build_tag_str = <<>> THEN Ok(C.db, C.cache, None)
    ELSE Let(LeadingDigits(build_tag_str), LAMBDA n :
         FromStr(C, "build_tag", build_tag_str,
                 IF n = 0 THEN [raised |-> "ValueError"]
                 ELSE [tag |-> build_tag_str,
                       build_number |-> ToInt(SubSeq(build_tag_str, 1, n)),
                       build_string |-> SubSeq(build_tag_str, n + 1, Len(build_tag_str)),
                       id |-> None]))

PythonTagFromStr(C, tag_str) ==
    FromStr(C, "python_tag", tag_str, [tag |-> tag_str, id |-> None])

AbiTagFromStr(C, tag_str) ==
    FromStr(C, "abi_tag", tag_str, [tag |-> tag_str, id |-> None])

PlatformTagFromStr(C, tag_str) ==
    FromStr(C, "platform_tag", tag_str, [tag |-> tag_str, id |-> None])

(***************************************************************************)
(* Wheel, File, Project (db.py 303-479)                                    *)
(***************************************************************************)
NoWheel ==
    [version |-> None, build_tag |-> None, python_tag |-> None,
     abi_tag |-> None, platform_tag |-> None]

\* Wheel.from_file: the Wheel of a file whose name ends in .whl, or NoWheel
WheelFromFile(C, filename) ==
    Let(Split(SubSeq(filename, 1, Len(filename) - 4)), LAMBDA parts :
    IF Len(parts) < 5 \/ Len(parts) > 6 THEN Ok(C.db, C.cache, NoWheel)
    ELSE
    Let(IF Len(parts) = 5 THEN 0 ELSE 1, LAMBDA off :
    Let(IF Len(parts) = 5 THEN Ok(C.db, C.cache, None)
        ELSE BuildTagFromStr(C, parts[3]), LAMBDA b :
    IF b.raised = "ValueError" THEN Ok(b.db, b.cache, NoWheel)
    ELSE IF b.raised # "None" THEN b
    ELSE Let(VersionFromStr(b, parts[2]), LAMBDA v :
    IF v.raised # "None" THEN v
    ELSE Let(PythonTagFromStr(v, parts[3 + off]), LAMBDA py :
    IF py.raised # "None" THEN py
    ELSE Let(AbiTagFromStr(py, parts[4 + off]), LAMBDA abi :
    IF abi.raised # "None" THEN abi
    ELSE Let(PlatformTagFromStr(abi, parts[5 + off]), LAMBDA plat :
    IF plat.raised # "None" THEN plat
    ELSE Ok(plat.db, plat.cache,
            [version |-> v.ret, build_tag |-> b.ret, python_tag |-> py.ret,
             abi_tag |-> abi.ret, platform_tag |-> plat.ret]))))))))

\* Python truthiness of file_info.get("yanked", False)
Truthy(value) == value \notin {"False", "None", ""}

\* File.from_info: a transient File (with its Hash set and optional Wheel)
FileFromInfo(C, file_info) ==
    Let([filename |-> file_info.filename,
         url |-> file_info.url,
         hashes |-> file_info.hashes,
         requires_python |-> file_info.requires_python,
         core_metadata |-> "None",
         gpg_signature |-> "None",
         yanked |-> Truthy(file_info.yanked),
         yanked_reason |-> IF Truthy(file_info.yanked) THEN file_info.yanked ELSE "None",
         size |-> file_info.size,
         upload_time |-> file_info.upload_time,
         provenance |-> file_info.provenance,
         wheel |-> NoWheel,
         project |-> None,
         persisted |-> FALSE], LAMBDA file :
    IF EndsWith(file_info.filename, WHL)
    THEN Let(WheelFromFile(C, file_info.filename), LAMBDA w :
         IF w.raised # "None" THEN w
         ELSE Ok(w.db, w.cache, [file EXCEPT !.wheel = w.ret]))
    ELSE Ok(C.db, C.cache, file))

\* {Version.from_str(session, v) for v in versions}, in list order
RECURSIVE VersionsFromStr(_, _, _)
VersionsFromStr(C, versions, acc) ==
    IF versions = <<>> THEN Ok(C.db, C.cache, acc)
    ELSE Let(VersionFromStr(C, Head(versions)), LAMBDA r :
         IF r.raised # "None" THEN r
         ELSE VersionsFromStr(r, Tail(versions), acc \cup {r.ret}))

\* {File.from_info(session, f) for f in files}, in list order: one new File
\* object per list entry
RECURSIVE FilesFromInfo(_, _, _)
FilesFromInfo(C, files, acc) ==
    IF files = <<>> THEN Ok(C.db, C.cache, acc)
    ELSE Let(FileFromInfo(C, Head(files)), LAMBDA r :
         IF r.raised # "None" THEN r
         ELSE FilesFromInfo(r, Tail(files), Append(acc, r.ret)))

\* (mutation) the document's files never reach the session
NotOwned(files, p) == <<>>

\* the File objects become rows of the session when their Project is in it
\* (save-update cascade over Project.files)
OwnedBy(files, p) ==
    <<>> \o [i \in DOMAIN files |-> [files[i] EXCEPT !.project = p]]

\* Project.from_info: ret is the transient Project and its File objects
ProjectFromInfo(C, project_last_serial, project_info) ==
    Let(VersionsFromStr(C, project_info.versions, {}), LAMBDA vs :
    IF vs.raised # "None" THEN vs
    ELSE Let(FilesFromInfo(vs, project_info.files, <<>>), LAMBDA fs :
    IF fs.raised # "None" THEN fs
    ELSE Ok(fs.db, fs.cache,
            [project |-> [name |-> project_info.name,
                          last_serial |-> project_last_serial,
                          status |-> project_info.status,
                          status_reason |-> project_info.status_reason,
                          versions |-> vs.ret,
                          persisted |-> FALSE],
             files |-> fs.ret])))

\* (mutation) session.add without the cascade to the Project's files
SessionAddAlone(d, obj) == [d EXCEPT !.project = Append(@, obj.project)]

\* session.add(project)
SessionAdd(d, obj) ==
    [d EXCEPT !.project = Append(@, obj.project),
              !.file = @ \o OwnedBy(obj.files, Len(d.project) + 1)]

ProjectVersionStrs(d, p) == {d.version[v].version : v \in d.project[p].versions}

ProjectFiles(d, p) == {f \in DOMAIN d.file : d.file[f].project = p}

ProjectFilenames(d, p) == {d.file[f].filename : f \in ProjectFiles(d, p)}

\* (mutation) the merge overlooks the files it already has
OldFilesOverlooked(d, self) == {}

\* old_files = {f.filename for f in self.files}
OldFiles(d, self) == {d.file[f].filename : f \in ProjectFiles(d, self)}

\* old_versions = {v.version for v in self.versions}
OldVersions(d, self) == {d.version[v].version : v \in d.project[self].versions}

\* (mutation) self.versions = new_versions
AssignVersions(versions, new_versions) == new_versions

\* self.versions |= new_versions
UnionVersions(versions, new_versions) == versions \cup new_versions

\* Project.update_from_info on the persistent Project self
UpdateFromInfo(C, self, project_last_serial, project_info) ==
    Let([C.db EXCEPT
           !.project[self].status = project_info.status,
           !.project[self].status_reason = project_info.status_reason], LAMBDA d0 :
    Let(OldVersions(d0, self), LAMBDA old_versions :
    Let(VersionsFromStr([db |-> d0, cache |-> C.cache],
                        SelectSeq(project_info.versions,
                                  LAMBDA v : v \notin old_versions),
                        {}), LAMBDA vs :
    IF vs.raised # "None" THEN vs
    ELSE
    Let([vs.db EXCEPT !.project[self].versions = UnionVersions(@, vs.ret)], LAMBDA d1 :
    Let(OldFiles(d1, self), LAMBDA old_files :
    Let(FilesFromInfo([db |-> d1, cache |-> vs.cache],
                      SelectSeq(project_info.files,
                                LAMBDA f : f.filename \notin old_files),
                      <<>>), LAMBDA fs :
    IF fs.raised # "None" THEN fs
    ELSE Ok([fs.db EXCEPT
               !.file = @ \o OwnedBy(fs.ret, self),
               !.project[self].last_serial = project_last_serial],
            fs.cache, None)))))))

\* select(Project).filter_by(name=...): the stored Projects of that name
SelectProject(d, name) ==
    {p \in DOMAIN d.project : d.project[p].persisted /\ d.project[p].name = name}

\* The writer's try block (main.py 137-150): look the project up when
\* update is set, create it when absent, merge into it when present.
ApplyDoc(C, update, project_last_serial, project_info) ==
    Let(IF update THEN Autoflush(C.db) ELSE [db |-> C.db, raised |-> "None"], LAMBDA fl :
    IF fl.raised # "None" THEN Raise(fl.db, C.cache, fl.raised)
    ELSE
    Let(IF update THEN SelectProject(fl.db, project_info.name) ELSE {}, LAMBDA found :
    IF found = {}
    THEN Let(ProjectFromInfo([db |-> fl.db, cache |-> C.cache],
                             project_last_serial, project_info), LAMBDA r :
         IF r.raised # "None" THEN r
         ELSE Ok(SessionAdd(r.db, r.ret), r.cache, None))
    ELSE UpdateFromInfo([db |-> fl.db, cache |-> C.cache], CHOOSE p \in found : TRUE,
                        project_last_serial, project_info)))

\* load_tag_caches in a fresh process: every (key, id) pair of every kind
LoadTagCaches(d) ==
    [k \in Kinds |->
        [key \in {KeyOf(k, d[k][i]) : i \in DOMAIN d[k]} |->
            (d[k][CHOOSE i \in DOMAIN d[k] : KeyOf(k, d[k][i]) = key]).id]]

\* select(Version.version, Version.id) and the like: the stored (key, id)
\* pairs of a kind
StoredPairs(d, kind) == {<<KeyOf(kind, d[kind][i]), d[kind][i].id>> : i \in DOMAIN d[kind]}

\* load_tag_caches(session) on the caches c with the flags l: nothing when
\* the version cache is loaded, else the five bulk loads
load_tag_caches(c, l, d) ==
    IF is_loaded(l, "version") THEN [cache |-> c, loaded |-> l]
    ELSE [cache |-> [k \in Kinds |-> load_from_query(c[k], StoredPairs(d, k))],
          loaded |-> AllLoaded]

(***************************************************************************)
(* Documents                                                               *)
(***************************************************************************)
MaxSerial == 3
MaxOps == 2

NameA == <<"a">>
NameB == <<"b">>
Names == {NameA, NameB}

V1 == <<"1">>
V2 == <<"2">>

SdistName == <<"a", ".", "t", "g", "z">>
Wheel5Name == <<"a", "-", "1", "-", "p", "-", "n", "-", "l", ".", "w", "h", "l">>
Wheel6Name == <<"a", "-", "2", "-", "3", "x", "-", "p", "-", "n", "-", "l", ".", "w", "h", "l">>
WheelBadName == <<"a", "-", "2", "-", "x", "-", "p", "-", "n", "-", "l", ".", "w", "h", "l">>

FileInfo(filename, url, yanked) ==
    [filename |-> filename, url |-> url, hashes |-> {<<"sha256", url>>},
     requires_python |-> "None", yanked |-> yanked, size |-> Len(filename),
     upload_time |-> "None", provenance |-> "None"]

Contents ==
    { [versions |-> <<V1>>,
       files |-> <<FileInfo(SdistName, "u1", "False")>>,
       status |-> "None", status_reason |-> "None"],
      [versions |-> <<V1, V2>>,
       files |-> <<FileInfo(SdistName, "u2", "broken"), FileInfo(Wheel5Name, "u1", "False")>>,
       status |-> "active", status_reason |-> "None"],
      [versions |-> <<V2, V2>>,
       files |-> <<FileInfo(Wheel6Name, "u1", "False"), FileInfo(WheelBadName, "u1", "False")>>,
       status |-> "archived", status_reason |-> "r"] }

ProjectInfos ==
    {[name |-> n, versions |-> c.versions, files |-> c.files,
      status |-> c.status, status_reason |-> c.status_reason] :
        n \in Names, c \in Contents}

(***************************************************************************)
(* The merge engine driven by arbitrary documents: a process applies       *)
(* documents (at most one per name, as the diff queues each name once),    *)
(* commits, and a later process starts from what was committed.            *)
(***************************************************************************)
EmptyM ==
    [db |-> EmptyDb, committed |-> EmptyDb, cache |-> EmptyCache,
     loaded |-> AllLoaded, merge_pc |-> "run", run_names |-> {}]

ApplyEvent(serial, info) == [op |-> "apply", serial |-> serial, info |-> info]
CommitEvent == [op |-> "commit"]
LoadEvent == [op |-> "load"]
InitDbEvent == [op |-> "init_db"]

\* the name is queued for update when a Project of that name is stored
IsUpdate(M, name) == \E p \in DOMAIN M.db.project : M.db.project[p].name = name

CanExec(M, e) ==
    CASE e.op = "apply" ->
            /\ M.merge_pc = "run"
            /\ M.loaded["version"]    \* init_db has returned the Session factory
            /\ normalize(e.info.name) \notin M.run_names
      [] e.op = "commit" -> M.merge_pc = "run" /\ M.db # M.committed
      [] e.op = "load" -> M.merge_pc = "run"
      [] e.op = "init_db" ->
            /\ M.run_names # {}
            /\ M.merge_pc = "crashed" \/ M.db = M.committed

\* an exception leaves process_updates: the session is closed without a
\* commit and the process, with its caches, ends
Crash(M) ==
    [M EXCEPT !.db = M.committed, !.cache = EmptyCache, !.loaded = NotLoaded,
              !.merge_pc = "crashed"]

Exec(M, e) ==
    CASE e.op = "apply" ->
            Let(normalize(e.info.name), LAMBDA name :
            Let(ApplyDoc([db |-> M.db, cache |-> M.cache],
                         IsUpdate(M, name), e.serial, e.info), LAMBDA r :
            IF r.raised # "None"
            THEN [Crash(M) EXCEPT !.run_names = @ \cup {name}]
            ELSE [M EXCEPT !.db = r.db, !.cache = r.cache,
                           !.run_names = @ \cup {name}]))
      [] e.op = "commit" ->
            Let(Flush(M.db), LAMBDA fl :
            IF fl.raised # "None" THEN Crash(M)
            ELSE [M EXCEPT !.db = fl.db, !.committed = fl.db])
      [] e.op = "load" ->
            Let(load_tag_caches(M.cache, M.loaded, M.committed), LAMBDA r :
            [M EXCEPT !.cache = r.cache, !.loaded = r.loaded])
      [] e.op = "init_db" ->
            [M EXCEPT !.db = M.committed, !.cache = LoadTagCaches(M.committed),
                      !.loaded = AllLoaded,
                      !.merge_pc = "run", !.run_names = {}]

RECURSIVE Replay(_, _)
Replay(M, events) ==
    IF events = <<>> THEN M ELSE Replay(Exec(M, Head(events)), Tail(events))

RECURSIVE CanReplay(_, _)
CanReplay(M, events) ==
    \/ events = <<>>
    \/ /\ CanExec(M, Head(events))
       /\ CanReplay(Exec(M, Head(events)), Tail(events))

NumApplied(events) == Cardinality({i \in DOMAIN events : events[i].op = "apply"})

\* the store after a first sync run of one document, or the empty store
FirstRuns ==
    {<<>>} \cup
    {<<ApplyEvent(s, i), CommitEvent, InitDbEvent>> : s \in 1..MaxSerial, i \in ProjectInfos}

Current == [db |-> db, committed |-> committed, cache |-> cache, loaded |-> loaded,
            merge_pc |-> merge_pc, run_names |-> run_names]

Become(M) ==
    /\ db' = M.db
    /\ committed' = M.committed
    /\ cache' = M.cache
    /\ loaded' = M.loaded
    /\ merge_pc' = M.merge_pc
    /\ run_names' = M.run_names

Passes == {"update", "add"}

\* no sync run is under way: nothing listed, nothing queued, no thread
RunIdle ==
    /\ run_pc = "start"
    /\ writer_exc = "None"
    /\ listing = <<>>
    /\ plan = [num_projects |-> 0,
               num_projects_to_update |-> 0, projects_to_update |-> <<>>,
               num_projects_to_add |-> 0, projects_to_add |-> <<>>]
    /\ project_queue = [pass \in Passes |-> <<>>]
    /\ project_info_queue = [pass \in Passes |-> <<>>]
    /\ ready = [pass \in Passes |-> 0]
    /\ in_flight = [pass \in Passes |-> {}]
    /\ stopped = [pass \in Passes |-> 0]
    /\ dead = [pass \in Passes |-> 0]
    /\ num_updated_projects = 0
    /\ responses = <<>>

MergeInit ==
    \E first \in FirstRuns :
        /\ RunIdle
        /\ hist = first
        /\ \E M \in {Replay(EmptyM, first)} :
              /\ db = M.db
              /\ committed = M.committed
              /\ cache = M.cache
              /\ loaded = M.loaded
              /\ merge_pc = M.merge_pc
              /\ run_names = M.run_names

Do(e) ==
    /\ CanExec(Current, e)
    /\ Become(Exec(Current, e))
    /\ hist' = Append(hist, e)
    /\ UNCHANGED runVars

Apply ==
    /\ NumApplied(hist) <= MaxOps
    /\ \E s \in 1..MaxSerial, i \in ProjectInfos : Do(ApplyEvent(s, i))

Commit == Do(CommitEvent)

InitDb ==
    /\ NumApplied(hist) <= MaxOps
    /\ Do(InitDbEvent)

MergeNext == Apply \/ Commit \/ InitDb

SpecMerge == MergeInit /\ [][MergeNext]_vars

(***************************************************************************)
(* History helpers for the merge claims                                    *)
(***************************************************************************)
Applies(events) == {i \in DOMAIN events : events[i].op = "apply"}

Max(S) == CHOOSE x \in S : \A y \in S : y <= x

\* the state the events before position i lead to
Before(events, i) == Replay(EmptyM, SubSeq(events, 1, i - 1))

\* no process crashed between event i (included) and the end of events
NoCrashSince(events, i) ==
    \A k \in i..Len(events) : Replay(EmptyM, SubSeq(events, 1, k)).merge_pc = "run"

ProjectNamed(d, name) == {p \in DOMAIN d.project : d.project[p].name = name}

\* the step applies document e to a stored Project and the merge returns
UpdatesProject(e, p) ==
    /\ hist' = Append(hist, e)
    /\ e.op = "apply"
    /\ merge_pc' = "run"
    /\ p \in ProjectNamed(db, e.info.name)

\* the Project and the files it owns, by value
FileAttributes(d, p) ==
    {[d.file[f] EXCEPT !.project = 0, !.persisted = TRUE, !.wheel = NoWheel] :
        f \in ProjectFiles(d, p)}

ProjectState(d, p) ==
    [status |-> d.project[p].status,
     status_reason |-> d.project[p].status_reason,
     last_serial |-> d.project[p].last_serial,
     versions |-> ProjectVersionStrs(d, p),
     files |-> FileAttributes(d, p)]

(***************************************************************************)
(* C2: applying an update document whose serial is not greater than the    *)
(* stored last_serial changes nothing of the Project (status,              *)
(* status_reason, versions, files, last_serial), and applying one whose    *)
(* serial is greater sets last_serial to the document's serial.            *)
(***************************************************************************)
C2_StaleUpdateIsNoOp ==
    [][\A s \in 1..MaxSerial, i \in ProjectInfos, p \in DOMAIN db.project :
          UpdatesProject(ApplyEvent(s, i), p) =>
              IF s <= db.project[p].last_serial
              THEN ProjectState(db', p) = ProjectState(db, p)
              ELSE db'.project[p].last_serial = s]_mergeVars

(***************************************************************************)
(* C3: whatever documents are merged into a Project, in whatever order,    *)
(* its stored last_serial never decreases.                                 *)
(***************************************************************************)
C3_SerialNeverDecreases ==
    [][\A s \in 1..MaxSerial, i \in ProjectInfos, p \in DOMAIN db.project :
          UpdatesProject(ApplyEvent(s, i), p) =>
              db'.project[p].last_serial >= db.project[p].last_serial]_mergeVars

(***************************************************************************)
(* C4: identity resolution.  For each kind, however often a key has been   *)
(* resolved (within one document, across documents, across projects and    *)
(* across processes), the key has exactly one row, every reference         *)
(* obtained for the key is that row, and a cached id is the id of that     *)
(* row.  (A build tag that BuildTag.from_str rejects is never resolved to  *)
(* an entity and has no row.)                                              *)
(***************************************************************************)
WheelParts(filename) == Split(SubSeq(filename, 1, Len(filename) - 4))

\* the keys that the wheel w of a file of that name was built from
WheelRefsResolve(d, filename, w) ==
    LET parts == WheelParts(filename)
        off == Len(parts) - 5
    IN  /\ w.version \in DOMAIN d.version
        /\ d.version[w.version].version = parts[2]
        /\ w.python_tag \in DOMAIN d.python_tag
        /\ d.python_tag[w.python_tag].tag = parts[3 + off]
        /\ w.abi_tag \in DOMAIN d.abi_tag
        /\ d.abi_tag[w.abi_tag].tag = parts[4 + off]
        /\ w.platform_tag \in DOMAIN d.platform_tag
        /\ d.platform_tag[w.platform_tag].tag = parts[5 + off]
        /\ w.build_tag # None =>
              /\ w.build_tag \in DOMAIN d.build_tag
              /\ d.build_tag[w.build_tag].tag = parts[3]

OneRowPerKey(d) ==
    \A k \in Kinds : \A i, j \in DOMAIN d[k] :
        KeyOf(k, d[k][i]) = KeyOf(k, d[k][j]) => i = j

C4_ResolveIdempotent ==
    /\ OneRowPerKey(db)
    /\ OneRowPerKey(committed)
    /\ \A f \in DOMAIN db.file :
          db.file[f].wheel # NoWheel =>
              WheelRefsResolve(db, db.file[f].filename, db.file[f].wheel)
    /\ \A p \in DOMAIN db.project : \A v \in db.project[p].versions :
          v \in DOMAIN db.version
    \* the document just merged: each of its version strings is one row,
    \* and that row is the one associated with the Project
    /\ (hist # <<>> /\ hist[Len(hist)].op = "apply" /\ merge_pc = "run") =>
          LET info == hist[Len(hist)].info IN
          \A p \in ProjectNamed(db, info.name) :
          \A i \in DOMAIN info.versions :
              /\ Cardinality({v \in DOMAIN db.version :
                                 db.version[v].version = info.versions[i]}) = 1
              /\ info.versions[i] \in ProjectVersionStrs(db, p)
    \* a cached id names the row of its key
    /\ \A k \in Kinds : \A key \in DOMAIN cache[k] :
          cache[k][key] # None =>
              /\ cache[k][key] \in DOMAIN db[k]
              /\ KeyOf(k, db[k][cache[k][key]]) = key
              /\ db[k][cache[k][key]].id = cache[k][key]

\* two Projects own wheels that reference one and the same AbiTag row, and
\* a version string listed twice in one document has been resolved
C4_Witness ==
    /\ \E f, g \in DOMAIN db.file :
          /\ db.file[f].project # db.file[g].project
          /\ db.file[f].wheel # NoWheel
          /\ db.file[f].wheel.abi_tag = db.file[g].wheel.abi_tag
    /\ \E i \in DOMAIN hist :
          /\ hist[i].op = "apply"
          /\ Len(hist[i].info.versions) = 2
          /\ hist[i].info.versions[1] = hist[i].info.versions[2]
    /\ merge_pc = "run"
    /\ db = committed

(***************************************************************************)
(* C5: applying to a Project the update document that was applied to it    *)
(* last leaves the store exactly as it was.                                *)
(***************************************************************************)
LastApply(events) == events[Max(Applies(events))]

C5_UpdateIdempotent ==
    [][\A s \in 1..MaxSerial, i \in ProjectInfos, p \in DOMAIN db.project :
          ( /\ UpdatesProject(ApplyEvent(s, i), p)
            /\ Applies(hist) # {}
            /\ LastApply(hist) = ApplyEvent(s, i)
            /\ NoCrashSince(hist, Max(Applies(hist))) )
          => db' = db]_mergeVars

\* the same document has been merged twice in a row into a stored Project
\* that owns files and wheels
C5_Witness ==
    /\ Cardinality(Applies(hist)) >= 3
    /\ LET j == Max(Applies(hist))
           i == Max(Applies(hist) \ {j})
       IN  /\ hist[i] = hist[j]
           /\ j = Len(hist)
           /\ NoCrashSince(hist, i)
           /\ ProjectNamed(Before(hist, i).db, hist[i].info.name) # {}
           /\ \E f \in DOMAIN db.file : db.file[f].wheel # NoWheel

(***************************************************************************)
(* C6: two update documents for one stored Project, each with a serial     *)
(* greater than the stored last_serial, leave the Project with the same    *)
(* set of version strings and the same set of filenames in either order    *)
(* of application.                                                         *)
(***************************************************************************)
Swap(events, i, j) ==
    <<>> \o [k \in DOMAIN events |->
                IF k = i THEN events[j] ELSE IF k = j THEN events[i] ELSE events[k]]

\* the last two applied documents, with their positions exchanged
Swapped(events) ==
    LET j == Max(Applies(events))
        i == Max(Applies(events) \ {j})
    IN  Swap(events, i, j)

\* The last two documents applied are updates of one stored Project, each
\* with a serial above the stored one, and both orders of application run
\* to the end.
TwoUpdates(events) ==
    /\ Cardinality(Applies(events)) >= 2
    /\ LET j == Max(Applies(events))
           i == Max(Applies(events) \ {j})
           stored == Before(events, i).db
       IN  /\ events[i].info.name = events[j].info.name
           /\ \E p \in ProjectNamed(stored, events[i].info.name) :
                 /\ stored.project[p].last_serial < events[i].serial
                 /\ stored.project[p].last_serial < events[j].serial
           /\ NoCrashSince(events, i)
           /\ CanReplay(EmptyM, Swapped(events))
           /\ NoCrashSince(Swapped(events), i)

C6_MergeCommutes ==
    TwoUpdates(hist) =>
        LET other == Replay(EmptyM, Swapped(hist)).db
            name == LastApply(hist).info.name
        IN  \A p \in ProjectNamed(db, name), q \in ProjectNamed(other, name) :
                /\ ProjectVersionStrs(db, p) = ProjectVersionStrs(other, q)
                /\ ProjectFilenames(db, p) = ProjectFilenames(other, q)

\* two updates with different version lists and different file lists have
\* been applied to a stored Project
C6_Witness ==
    /\ TwoUpdates(hist)
    /\ LET j == Max(Applies(hist))
           i == Max(Applies(hist) \ {j})
       IN  /\ hist[i].info.versions # hist[j].info.versions
           /\ hist[i].info.files # hist[j].info.files
           /\ \E p \in ProjectNamed(db, hist[j].info.name) :
                 /\ ProjectVersionStrs(db, p) # ProjectVersionStrs(Before(hist, j).db, p)
                 /\ ProjectFilenames(db, p) # ProjectFilenames(Before(hist, i).db, p)

(***************************************************************************)
(* C7: the final state of a Project (status, status_reason, last_serial,   *)
(* versions, files and their attributes) does not depend on the order in   *)
(* which its documents reach the writer.                                   *)
(***************************************************************************)
C7_OrderIndependent ==
    TwoUpdates(hist) =>
        LET other == Replay(EmptyM, Swapped(hist)).db
            name == LastApply(hist).info.name
        IN  \A p \in ProjectNamed(db, name), q \in ProjectNamed(other, name) :
                ProjectState(db, p) = ProjectState(other, q)

(***************************************************************************)
(* The diff planner: find_projects_to_update (main.py 77-122).  An entry   *)
(* of the projects list is [name, last_serial] (the keys "name" and        *)
(* "_last-serial"); a Queue is the sequence of its items, oldest first.    *)
(***************************************************************************)
\* the keys of the dict comprehension new_projects, in insertion order: a
\* key keeps the position of its first entry
RECURSIVE DictKeys(_, _)
DictKeys(projects, seen) ==
    IF projects = <<>> THEN <<>>
    ELSE LET key == normalize(Head(projects).name) IN
         IF key \in seen THEN DictKeys(Tail(projects), seen)
         ELSE <<key>> \o DictKeys(Tail(projects), seen \cup {key})

\* new_projects[name]: a later entry of the same key replaces the value
NewProjects(projects, name) ==
    projects[Max({i \in DOMAIN projects : normalize(projects[i].name) = name})].last_serial

\* (mutation) old_last_serial <= new_last_serial
SerialNotGreater(old_last_serial, new_last_serial) == old_last_serial <= new_last_serial

\* if old_last_serial < new_last_serial
SerialIncreased(old_last_serial, new_last_serial) == old_last_serial < new_last_serial

\* d is the store that the new Session reads; the rows come in table order
FindProjectsToUpdate(d, projects) ==
    LET keys == DictKeys(projects, {})
        in_dict(name) == \E i \in DOMAIN keys : keys[i] = name
        stored == {d.project[p].name : p \in DOMAIN d.project}
        queued == SelectSeq(d.project,
                            LAMBDA row :
                                /\ in_dict(row.name)
                                /\ SerialIncreased(row.last_serial,
                                                   NewProjects(projects, row.name)))
        to_update == <<>> \o [i \in DOMAIN queued |-> queued[i].name]
        to_add == SelectSeq(keys, LAMBDA name : name \notin stored)
    IN  [num_projects |-> Len(projects),
         num_projects_to_update |-> Len(to_update),
         projects_to_update |-> to_update,
         num_projects_to_add |-> Len(to_add),
         projects_to_add |-> to_add]

(***************************************************************************)
(* The remote index as the client sees it (pypi_client.py)                 *)
(***************************************************************************)
\* str.split(".")
RECURSIVE SplitDot(_)
SplitDot(s) ==
    IF \A i \in DOMAIN s : s[i] # "." THEN <<s>>
    ELSE LET i == CHOOSE k \in DOMAIN s :
                      s[k] = "." /\ \A j \in 1..(k - 1) : s[j] # "."
         IN  <<SubSeq(s, 1, i - 1)>> \o SplitDot(SubSeq(s, i + 1, Len(s)))

\* check_meta: the body's last serial, or the AssertionError of an
\* unsupported API version
check_meta(meta) ==
    LET parts == SplitDot(meta.api_version)
        major == ToInt(parts[1])
        minor == ToInt(parts[2])
    IN  IF major = 1 /\ minor >= 4
        THEN [raised |-> "None", ret |-> meta.last_serial]
        ELSE [raised |-> "AssertionError", ret |-> None]

\* get_project: (project_last_serial, json_body), or the exception raised
get_project(response) ==
    IF response.status >= 400
    THEN [raised |-> "HTTPError", ret |-> <<>>]
    ELSE Let(response.x_pypi_last_serial, LAMBDA header_last_serial :
         Let(check_meta(response.meta), LAMBDA body_last_serial :
         IF body_last_serial.raised # "None"
         THEN [raised |-> body_last_serial.raised, ret |-> <<>>]
         ELSE IF body_last_serial.ret # header_last_serial
         THEN [raised |-> "AssertionError", ret |-> <<>>]
         ELSE [raised |-> "None",
               ret |-> <<body_last_serial.ret, response.json_body>>]))

\* (mutation) a worker without the except clause
CatchesNothing(exc) == FALSE

\* get_project_info: except HTTPError
Catches(exc) == exc = "HTTPError"

MaxNames == 5
MaxLocal == 2
NumWorkers == 4
BatchSize == 100
LocalSerial == 1
RemoteSerial == 2

Letters == <<"a", "b", "c", "d", "e", "f", "g", "h">>

NameOf(k) == <<Letters[k]>>

\* the spelling of the k-th project in the remote listing
ListedName(k) == IF k = 1 THEN <<"A">> ELSE NameOf(k)

Api14 == <<"1", ".", "4">>
Api20 == <<"2", ".", "0">>

\* the document the store was filled from, and the one the remote serves now
LocalDoc(name) ==
    [name |-> name, versions |-> <<V1>>,
     files |-> <<FileInfo(name \o <<".", "t", "g", "z">>, "u1", "False")>>,
     status |-> "None", status_reason |-> "None"]

RemoteDoc(name) ==
    [name |-> name, versions |-> <<V1, V2>>,
     files |-> <<FileInfo(name \o <<".", "t", "g", "z">>, "u1", "False"),
                 FileInfo(name \o <<"-", "2", ".", "t", "g", "z">>, "u2", "False")>>,
     status |-> "active", status_reason |-> "None"]

\* the responses the remote may give to the detail request for a name: the
\* document, or a body serial that differs from the header, and for the
\* projects that may be stored locally also a transport error or an
\* unsupported API version
Responses(name) ==
    { [status |-> 200, x_pypi_last_serial |-> RemoteSerial,
       meta |-> [api_version |-> Api14, last_serial |-> RemoteSerial],
       json_body |-> RemoteDoc(name)],
      [status |-> 200, x_pypi_last_serial |-> RemoteSerial,
       meta |-> [api_version |-> Api14, last_serial |-> RemoteSerial + 1],
       json_body |-> RemoteDoc(name)] }
    \cup
    IF \E k \in 1..MaxLocal : name = NameOf(k)
    THEN { [status |-> 404, x_pypi_last_serial |-> RemoteSerial,
            meta |-> [api_version |-> Api14, last_serial |-> RemoteSerial],
            json_body |-> RemoteDoc(name)],
           [status |-> 200, x_pypi_last_serial |-> RemoteSerial,
            meta |-> [api_version |-> Api20, last_serial |-> RemoteSerial],
            json_body |-> RemoteDoc(name)] }
    ELSE {}

\* the response that carries the document the remote serves now
OkResponse(name) ==
    [status |-> 200, x_pypi_last_serial |-> RemoteSerial,
     meta |-> [api_version |-> Api14, last_serial |-> RemoteSerial],
     json_body |-> RemoteDoc(name)]

\* the remote listing of the first k projects
Listed(k) == <<>> \o [i \in 1..k |-> [name |-> ListedName(i), last_serial |-> RemoteSerial]]

RunListings == {Listed(k) : k \in 0..MaxNames}

\* the store after an earlier run that added the first j projects
RECURSIVE EarlierRun(_)
EarlierRun(j) ==
    IF j = 0 THEN <<>>
    ELSE Append(EarlierRun(j - 1), ApplyEvent(LocalSerial, LocalDoc(NameOf(j))))

LocalStore(j) == Replay(EmptyM, Append(EarlierRun(j), CommitEvent)).committed

(***************************************************************************)
(* A sync run: find_projects_to_update, then process_updates for the       *)
(* update pass and for the add pass, as update_db sequences them (main.py  *)
(* 172-184) on the Session factory of init_db.  The four workers of a pass *)
(* are interchangeable, so a pass records how many of them are at each     *)
(* point of get_project_info and which names are being fetched.            *)
(***************************************************************************)
RunInit ==
    \E j \in 0..MaxLocal : \E store \in {LocalStore(j)} :
        /\ db = store
        /\ committed = store
        /\ cache = LoadTagCaches(store)
        /\ loaded = AllLoaded
        /\ merge_pc = "run"
        /\ run_names = {}
        /\ hist = <<>>
        /\ RunIdle

\* find_projects_to_update on one of the given listings, then the start of
\* process_updates for the update pass: the threads are started and the
\* writer opens its session
FindProjects(listings) ==
    /\ run_pc = "start"
    /\ \E projects \in listings :
       \E found \in {FindProjectsToUpdate(committed, projects)} :
          /\ listing' = projects
          /\ plan' = found
          /\ project_queue' = [update |-> found.projects_to_update,
                               add |-> found.projects_to_add]
    /\ run_pc' = "update"
    /\ ready' = [ready EXCEPT !.update = NumWorkers]
    /\ num_updated_projects' = 0
    /\ db' = committed
    /\ UNCHANGED <<committed, cache, loaded, merge_pc, run_names, hist, writer_exc,
                   project_info_queue, in_flight, stopped, dead, responses>>

\* get_project_info, lines 65-68: input_queue.get(block=False)
WorkerGet(pass) ==
    /\ ready[pass] > 0
    /\ IF project_queue[pass] = <<>>
       THEN /\ stopped' = [stopped EXCEPT ![pass] = @ + 1]
            /\ UNCHANGED <<project_queue, in_flight>>
       ELSE /\ project_queue' = [project_queue EXCEPT ![pass] = Tail(@)]
            /\ in_flight' = [in_flight EXCEPT ![pass] = @ \cup {Head(project_queue[pass])}]
            /\ UNCHANGED stopped
    /\ ready' = [ready EXCEPT ![pass] = @ - 1]
    /\ UNCHANGED <<mergeVars, run_pc, writer_exc, listing, plan,
                   project_info_queue, dead, num_updated_projects, responses>>

\* (mutation) a worker that merges the document it fetched into the store
\* itself instead of handing it to the writer
WorkerFetchMerges(pass) ==
    \E project_name \in in_flight[pass] :
    \E r \in {ApplyDoc([db |-> db, cache |-> cache], pass = "update",
                       RemoteSerial, RemoteDoc(project_name))} :
        /\ responses' = add(responses, project_name, OkResponse(project_name))
        /\ in_flight' = [in_flight EXCEPT ![pass] = @ \ {project_name}]
        /\ ready' = [ready EXCEPT ![pass] = @ + 1]
        /\ db' = r.db
        /\ cache' = r.cache
        /\ UNCHANGED <<committed, loaded, merge_pc, run_names, hist, run_pc, writer_exc,
                       listing, plan, project_queue, project_info_queue,
                       stopped, dead, num_updated_projects>>

\* get_project_info, lines 69-74: the response arrives
WorkerFetch(pass) ==
    \E project_name \in in_flight[pass] : \E response \in Responses(project_name) :
    \E project \in {get_project(response)} :
        /\ responses' = add(responses, project_name, response)
        /\ in_flight' = [in_flight EXCEPT ![pass] = @ \ {project_name}]
        /\ IF project.raised = "None"
           THEN /\ project_info_queue' =
                       [project_info_queue EXCEPT ![pass] = Append(@, project.ret)]
                /\ ready' = [ready EXCEPT ![pass] = @ + 1]
                /\ UNCHANGED dead
           ELSE IF Catches(project.raised)
           THEN /\ ready' = [ready EXCEPT ![pass] = @ + 1]
                /\ UNCHANGED <<project_info_queue, dead>>
           ELSE /\ dead' = [dead EXCEPT ![pass] = @ + 1]
                /\ UNCHANGED <<project_info_queue, ready>>
        /\ UNCHANGED <<mergeVars, run_pc, writer_exc, listing, plan,
                       project_queue, stopped, num_updated_projects>>

\* the writer is inside the loop of process_updates
WriterActive == run_pc \in Passes /\ writer_exc = "None"

\* session.commit(): the store as committed, or the exception of the flush
SessionCommit(d) == Flush(d)

\* lines 158-164: the progress line; percent is 0.0 while nothing has been
\* processed, and elapsed / percent then divides by zero
Progress(updated, num_projects) ==
    IF num_projects = 0 \/ updated = 0 THEN "ZeroDivisionError" ELSE "None"

NumProjects(pass) ==
    IF pass = "update" THEN plan.num_projects_to_update ELSE plan.num_projects_to_add

\* an exception leaves process_updates: the with block closes the session,
\* which rolls back what was not committed, and update_db ends
WriterRaises(exc, stored) ==
    /\ writer_exc' = exc
    /\ db' = stored
    /\ committed' = stored
    /\ UNCHANGED <<run_pc, ready>>

\* (mutation) a loop that commits only after it
BatchNever(updated) == FALSE

\* line 156: num_updated_projects % 100 == 0
BatchDue(updated) == updated % BatchSize = 0

\* lines 156-164: the batch commit and the progress line that end an
\* iteration in which the loop was not left; d and c are the session and
\* the caches after the iteration's try block
EndIteration(d, c, updated) ==
    /\ cache' = c
    /\ num_updated_projects' = updated
    /\ IF ~BatchDue(updated)
       THEN /\ db' = d
            /\ UNCHANGED <<committed, writer_exc, run_pc, ready>>
       ELSE \E fl \in {SessionCommit(d)} :
            IF fl.raised # "None" THEN WriterRaises(fl.raised, committed)
            ELSE IF Progress(updated, NumProjects(run_pc)) # "None"
            THEN WriterRaises(Progress(updated, NumProjects(run_pc)), fl.db)
            ELSE /\ db' = fl.db
                 /\ committed' = fl.db
                 /\ UNCHANGED <<writer_exc, run_pc, ready>>

\* one iteration of the writer's loop in which project_info_queue.get
\* returns a pair (lines 137-152, then 156-164)
WriterApply ==
    /\ WriterActive
    /\ project_info_queue[run_pc] # <<>>
    /\ \E item \in {Head(project_info_queue[run_pc])} :
       \E r \in {ApplyDoc([db |-> db, cache |-> cache], run_pc = "update",
                          item[1], item[2])} :
           /\ project_info_queue' = [project_info_queue EXCEPT ![run_pc] = Tail(@)]
           /\ IF r.raised # "None"
              THEN /\ WriterRaises(r.raised, committed)
                   /\ cache' = r.cache
                   /\ UNCHANGED <<num_updated_projects, hist>>
              ELSE /\ EndIteration(r.db, r.cache, num_updated_projects + 1)
                   /\ hist' = Append(hist, ApplyEvent(item[1], item[2]))
    /\ UNCHANGED <<loaded, merge_pc, run_names, listing, plan, project_queue,
                   in_flight, stopped, dead, responses>>

\* one iteration in which project_info_queue.get times out (lines 153-155,
\* then 156-164 or, after the break, 165-166 and the return to update_db,
\* which starts the add pass after the update pass)
WriterTimeout ==
    /\ WriterActive
    /\ project_info_queue[run_pc] = <<>>
    /\ IF project_queue[run_pc] = <<>>
       THEN \E fl \in {SessionCommit(db)} :
            IF fl.raised # "None"
            THEN /\ WriterRaises(fl.raised, committed)
                 /\ UNCHANGED <<cache, num_updated_projects>>
            ELSE /\ db' = fl.db
                 /\ committed' = fl.db
                 /\ run_pc' = IF run_pc = "update" THEN "add" ELSE "done"
                 /\ ready' = IF run_pc = "update"
                             THEN [ready EXCEPT !.add = NumWorkers]
                             ELSE ready
                 /\ num_updated_projects' =
                       IF run_pc = "update" THEN 0 ELSE num_updated_projects
                 /\ UNCHANGED <<cache, writer_exc>>
       ELSE EndIteration(db, cache, num_updated_projects)
    /\ UNCHANGED <<loaded, merge_pc, run_names, hist, listing, plan, project_queue,
                   project_info_queue, in_flight, stopped, dead, responses>>

RunFind == FindProjects(RunListings)

Next ==
    \/ RunFind
    \/ \E pass \in Passes : WorkerGet(pass)
    \/ \E pass \in Passes : WorkerFetch(pass)
    \/ WriterApply
    \/ WriterTimeout

Spec == RunInit /\ [][Next]_vars

(***************************************************************************)
(* The diff planner on arbitrary local summaries and remote listings       *)
(***************************************************************************)
MaxListing == 3

DiffLocalNames == {<<"a">>, <<"b">>}
DiffLocalSerials == {3, 5}
DiffRemoteNames == {<<"A">>, <<"B">>, <<"C">>, <<"A", "_", ".", "B">>}
DiffRemoteSerials == {1, 4, 5}

DiffLocalRows == [name : DiffLocalNames, last_serial : DiffLocalSerials]

\* the (name, last_serial) rows of the local store, in table order
DiffSummaries ==
    {<<>>} \cup {<<r>> : r \in DiffLocalRows}
           \cup {rows \in DiffLocalRows \X DiffLocalRows : rows[1].name # rows[2].name}

\* a store whose Projects are the given rows (Projects without versions and
\* files, as created from documents that list none)
StoreOf(summary) ==
    [EmptyDb EXCEPT !.project =
        <<>> \o [i \in DOMAIN summary |->
                    [name |-> summary[i].name,
                     last_serial |-> summary[i].last_serial,
                     status |-> "None", status_reason |-> "None",
                     versions |-> {}, persisted |-> TRUE]]]

DiffListings ==
    UNION {{<<>> \o f : f \in [1..n -> [name : DiffRemoteNames,
                                         last_serial : DiffRemoteSerials]]} :
              n \in 0..MaxListing}

DiffInit ==
    \E summary \in DiffSummaries :
        /\ db = StoreOf(summary)
        /\ committed = StoreOf(summary)
        /\ cache = EmptyCache
        /\ loaded = AllLoaded
        /\ merge_pc = "run"
        /\ run_names = {}
        /\ hist = <<>>
        /\ RunIdle

DiffFind == FindProjects(DiffListings)

DiffNext == DiffFind

SpecDiff == DiffInit /\ [][DiffNext]_vars

(***************************************************************************)
(* C8: find_projects_to_update partitions the normalized remote names:     *)
(* to-add is exactly the names with no local Project, to-update exactly    *)
(* the names whose local last_serial is strictly less than the remote      *)
(* serial, the rest is not queued; the two queues are disjoint and hold    *)
(* each name once; and local {a:5, b:3} with remote {A:5, B:4, C:1} gives  *)
(* to-update = {b}, to-add = {c}, unchanged = {a}.  (The remote serial of  *)
(* a name is that of its listing entry; the listing of an index has one    *)
(* entry per normalized name.)                                             *)
(***************************************************************************)
Range(seq) == {seq[i] : i \in DOMAIN seq}

RemoteNames == {normalize(listing[i].name) : i \in DOMAIN listing}

StoredNames(d) == {d.project[p].name : p \in DOMAIN d.project}

StoredSerial(d, name) ==
    d.project[CHOOSE p \in DOMAIN d.project : d.project[p].name = name].last_serial

ListedSerial(name) ==
    listing[CHOOSE i \in DOMAIN listing : normalize(listing[i].name) = name].last_serial

OneEntryPerName ==
    \A i, j \in DOMAIN listing :
        normalize(listing[i].name) = normalize(listing[j].name) => i = j

DiffExample ==
    /\ committed = StoreOf(<<[name |-> <<"a">>, last_serial |-> 5],
                            [name |-> <<"b">>, last_serial |-> 3]>>)
    /\ listing = <<[name |-> <<"A">>, last_serial |-> 5],
                   [name |-> <<"B">>, last_serial |-> 4],
                   [name |-> <<"C">>, last_serial |-> 1]>>

C8_DiffPartition ==
    run_pc # "start" =>
        LET to_add == Range(plan.projects_to_add)
            to_update == Range(plan.projects_to_update)
            unchanged == RemoteNames \ (to_add \cup to_update)
        IN  /\ to_add = RemoteNames \ StoredNames(committed)
            /\ to_update \subseteq RemoteNames \cap StoredNames(committed)
            /\ to_add \cap to_update = {}
            /\ Len(plan.projects_to_add) = Cardinality(to_add)
            /\ Len(plan.projects_to_update) = Cardinality(to_update)
            /\ plan.num_projects_to_add = Cardinality(to_add)
            /\ plan.num_projects_to_update = Cardinality(to_update)
            /\ plan.num_projects = Len(listing)
            /\ OneEntryPerName =>
                  /\ to_update =
                        {name \in RemoteNames \cap StoredNames(committed) :
                            StoredSerial(committed, name) < ListedSerial(name)}
                  /\ \A name \in unchanged :
                        StoredSerial(committed, name) >= ListedSerial(name)
            /\ DiffExample =>
                  /\ to_update = {<<"b">>}
                  /\ to_add = {<<"c">>}
                  /\ unchanged = {<<"a">>}

\* the diff of the example has been computed
C8_Witness ==
    /\ run_pc # "start"
    /\ DiffExample
    /\ plan.projects_to_update = <<(<<"b">>)>>
    /\ plan.projects_to_add = <<(<<"c">>)>>

(***************************************************************************)
(* History helpers for the run claims                                      *)
(***************************************************************************)
PassNames(pass) ==
    IF pass = "update" THEN Range(plan.projects_to_update)
    ELSE Range(plan.projects_to_add)

\* the workers of the pass have been started
Started(pass) == ready[pass] + Cardinality(in_flight[pass]) + stopped[pass] + dead[pass] > 0

\* the writer of the pass has left its loop by the break, and process_updates
\* has returned
LoopLeft(pass) ==
    IF pass = "update" THEN run_pc \in {"add", "done"} ELSE run_pc = "done"

\* the writer has applied a document of that name in this run
Applied(name) ==
    \E i \in DOMAIN hist : hist[i].op = "apply" /\ hist[i].info.name = name

\* what the detail fetch of the name came to
FetchResult(name) == get_project(responses[name]).raised

SerialMismatch(name) ==
    /\ responses[name].status < 400
    /\ check_meta(responses[name].meta).raised = "None"
    /\ responses[name].meta.last_serial # responses[name].x_pypi_last_serial

\* a (serial, document) pair of the name waits in a result queue
Waiting(name) ==
    \E pass \in Passes : \E i \in DOMAIN project_info_queue[pass] :
        project_info_queue[pass][i][2].name = name

(***************************************************************************)
(* C1: when the writer of a pass leaves its loop, no worker of the pass    *)
(* that pulled a name still has its fetch in flight, no fetched document   *)
(* waits unconsumed in the result queue, and every document that a worker  *)
(* of the pass fetched successfully has been applied.                      *)
(***************************************************************************)
C1_WriterWaitsForFetches ==
    \A pass \in Passes :
        LoopLeft(pass) =>
            /\ in_flight[pass] = {}
            /\ project_info_queue[pass] = <<>>
            /\ \A name \in PassNames(pass) \cap DOMAIN responses :
                  FetchResult(name) = "None" => Applied(name)

(***************************************************************************)
(* C9: when a detail fetch fails with a transport error (HTTPError), the   *)
(* worker goes back to pulling from the work queue, no other worker and    *)
(* no queue is affected, nothing of the resource is queued for the writer  *)
(* or written, the stored Project (if any) is as it was before the run,    *)
(* and the diff of the next run on the same listing selects the name       *)
(* again.                                                                  *)
(***************************************************************************)
InQueues(found, name) ==
    name \in Range(found.projects_to_update) \cup Range(found.projects_to_add)

\* the fullest store a run starts from; the stores of the other runs are
\* its first rows
StoreBefore == LocalStore(MaxLocal)

C9_Dropped ==
    \A name \in DOMAIN responses :
        FetchResult(name) = "HTTPError" =>
            /\ ~Applied(name)
            /\ ~Waiting(name)
            /\ \A d \in {db, committed} :
                  /\ name \in Range(plan.projects_to_add) => ProjectNamed(d, name) = {}
                  /\ name \in Range(plan.projects_to_update) => ProjectNamed(d, name) # {}
                  /\ \A p \in ProjectNamed(d, name) :
                        /\ ProjectState(d, p) = ProjectState(StoreBefore, p)
                        /\ d.project[p].last_serial = LocalSerial
            /\ InQueues(FindProjectsToUpdate(committed, listing), name)

C9_WorkerContinues ==
    \A pass \in Passes : \A name \in in_flight[pass] :
        ( /\ name \in DOMAIN responses'
          /\ get_project(responses'[name]).raised = "HTTPError" )
        => /\ ready'[pass] = ready[pass] + 1
           /\ in_flight'[pass] = in_flight[pass] \ {name}
           /\ dead' = dead
           /\ stopped' = stopped
           /\ project_queue' = project_queue
           /\ project_info_queue' = project_info_queue
           /\ db' = db
           /\ committed' = committed
           /\ writer_exc' = writer_exc

C10_MismatchConfined ==
    /\ \A name \in DOMAIN responses : SerialMismatch(name) => ~Applied(name)
    /\ \A pass \in Passes :
          ( /\ Started(pass)
            /\ project_queue[pass] # <<>>
            /\ \A name \in PassNames(pass) \cap DOMAIN responses :
                  FetchResult(name) = "None" \/ SerialMismatch(name) )
          => ready[pass] + Cardinality(in_flight[pass]) > 0

(***************************************************************************)
(* C11: once a response fetched during a run declares an API version whose *)
(* major is not 1 or whose minor is below 4, the run is over and writes    *)
(* nothing: no document is applied and nothing is committed from then on.  *)
(***************************************************************************)
UnsupportedVersion(name) ==
    /\ responses[name].status < 400
    /\ check_meta(responses[name].meta).raised = "AssertionError"

C11_NoWriteAfterUnsupported ==
    (\E name \in DOMAIN responses : UnsupportedVersion(name))
    => /\ db' = db
       /\ committed' = committed
       /\ hist' = hist

C11_UnsupportedVersionAborts == [][C11_NoWriteAfterUnsupported]_vars

(***************************************************************************)
(* The merge engine on documents of every shape: file names with every     *)
(* count of "-" components and every form of build tag, names in other     *)
(* spellings, a filename listed twice and by two projects.                 *)
(***************************************************************************)
MaxDocOps == 1

RECURSIVE Join(_)
Join(parts) ==
    IF Len(parts) = 1 THEN parts[1]
    ELSE parts[1] \o <<"-">> \o Join(Tail(parts))

TGZ == <<".", "t", "g", "z">>

WheelNamed(parts) == Join(parts) \o WHL

Sdist1 == <<"a">> \o TGZ
Sdist2 == <<"b">> \o TGZ
\* five components, but not a wheel
Sdist5 == Join(<< <<"a">>, <<"1">>, <<"p">>, <<"n">>, <<"l">> >>) \o TGZ
Whl4 == WheelNamed(<< <<"a">>, <<"1">>, <<"p">>, <<"n">> >>)
Whl5 == WheelNamed(<< <<"a">>, <<"1">>, <<"p">>, <<"n">>, <<"l">> >>)
Whl6 == WheelNamed(<< <<"a">>, <<"2">>, <<"3", "x">>, <<"p">>, <<"n">>, <<"l">> >>)
Whl6Digits == WheelNamed(<< <<"a">>, <<"2">>, <<"7">>, <<"p">>, <<"n">>, <<"l">> >>)
Whl6Letter == WheelNamed(<< <<"a">>, <<"2">>, <<"x">>, <<"p">>, <<"n">>, <<"l">> >>)
Whl6LateDigit == WheelNamed(<< <<"a">>, <<"2">>, <<"x", "3">>, <<"p">>, <<"n">>, <<"l">> >>)
Whl6Empty == WheelNamed(<< <<"a">>, <<"2">>, <<>>, <<"p">>, <<"n">>, <<"l">> >>)
Whl7 == WheelNamed(<< <<"a">>, <<"1">>, <<"2">>, <<"3">>, <<"p">>, <<"n">>, <<"l">> >>)

DocFilenames ==
    {Sdist1, Sdist2, Sdist5, Whl4, Whl5, Whl6, Whl6Digits, Whl6Letter,
     Whl6LateDigit, Whl6Empty, Whl7}

\* the file lists of the documents: one file of every shape, two distinct
\* files, one file listed twice, two wheels that share their tags
DocFileLists ==
    {<<FileInfo(n, "u1", "False")>> : n \in DocFilenames}
    \cup {<<FileInfo(Sdist1, "u1", "False"), FileInfo(Sdist2, "u2", "False")>>,
          <<FileInfo(Sdist1, "u1", "False"), FileInfo(Sdist1, "u1", "False")>>,
          <<FileInfo(Whl5, "u1", "False"), FileInfo(Whl6, "u2", "False")>>}

\* the spellings a document may use for its name
DocNames == {NameA, NameB, <<"A">>}

DocInfos ==
    {[name |-> n,
      versions |-> IF Len(files) = 1 THEN <<V1>> ELSE <<V1, V2>>,
      files |-> files,
      status |-> "active", status_reason |-> "None"] :
        n \in DocNames, files \in DocFileLists}

DocInit ==
    /\ RunIdle
    /\ hist = <<>>
    /\ db = EmptyM.db
    /\ committed = EmptyM.committed
    /\ cache = EmptyM.cache
    /\ loaded = EmptyM.loaded
    /\ merge_pc = EmptyM.merge_pc
    /\ run_names = EmptyM.run_names

DocApply ==
    /\ NumApplied(hist) <= MaxDocOps
    /\ \E s \in LocalSerial..RemoteSerial, i \in DocInfos : Do(ApplyEvent(s, i))

DocNext == DocApply \/ Commit \/ InitDb

SpecDocs == DocInit /\ [][DocNext]_vars

(***************************************************************************)
(* History helpers for the document claims                                 *)
(***************************************************************************)
IsWheelName(filename) ==
    /\ Len(filename) >= 4
    /\ SubSeq(filename, Len(filename) - 3, Len(filename)) = WHL

\* the stores a claim speaks about: the session and what is committed
Stores == {db, committed}

\* the last event applied a document and the merge returned
LastApplied(e) ==
    /\ hist # <<>>
    /\ hist[Len(hist)] = e
    /\ e.op = "apply"
    /\ merge_pc = "run"

(***************************************************************************)
(* C12: Wheel.from_file strips ".whl" and splits on "-".  A name of five   *)
(* components gives a Wheel of (name, version, python tag, abi tag,        *)
(* platform tag) without build tag; a name of six components gives one of  *)
(* (name, version, build tag, python tag, abi tag, platform tag); any      *)
(* other count gives no Wheel; a name that does not end in ".whl" gives no *)
(* Wheel; and in each case the File is stored and no error leaves the      *)
(* merge.                                                                  *)
(***************************************************************************)
C12_FileParsed(d, f) ==
    LET filename == d.file[f].filename
        w == d.file[f].wheel
        parts == WheelParts(filename)
    IN  IF ~IsWheelName(filename) THEN w = NoWheel
        ELSE IF Len(parts) = 5
        THEN /\ w # NoWheel
             /\ w.build_tag = None
             /\ WheelRefsResolve(d, filename, w)
        ELSE IF Len(parts) = 6
        THEN /\ w # NoWheel => WheelRefsResolve(d, filename, w)
             /\ LeadingDigits(parts[3]) > 0 =>
                   /\ w # NoWheel
                   /\ w.build_tag \in DOMAIN d.build_tag
                   /\ d.build_tag[w.build_tag].tag = parts[3]
        ELSE w = NoWheel

C12_WheelFromFilename ==
    /\ \A d \in Stores : \A f \in DOMAIN d.file : C12_FileParsed(d, f)
    /\ \A s \in LocalSerial..RemoteSerial, i \in DocInfos :
          LastApplied(ApplyEvent(s, i)) =>
              \A k \in DOMAIN i.files :
                  \E f \in DOMAIN db.file : db.file[f].filename = i.files[k].filename
    /\ \A k \in DOMAIN hist :
          hist[k].op = "apply" =>
              Let(Before(hist, k), LAMBDA M :
                  ApplyDoc([db |-> M.db, cache |-> M.cache],
                           IsUpdate(M, normalize(hist[k].info.name)),
                           hist[k].serial, hist[k].info).raised
                  \in {"None", "IntegrityError"})

\* committed: a file with a name of seven components and no Wheel, and a
\* file with a name of six components, its Wheel and its build tag
C12_Witness ==
    /\ \E f \in DOMAIN committed.file :
          /\ committed.file[f].filename = Whl7
          /\ committed.file[f].wheel = NoWheel
    /\ \E f \in DOMAIN committed.file :
          /\ committed.file[f].filename = Whl6
          /\ committed.file[f].wheel # NoWheel
          /\ committed.file[f].wheel.build_tag # None

(***************************************************************************)
(* C13: for a wheel filename of six components a Wheel is created only if  *)
(* the build-tag component is one or more digits followed by a remainder,  *)
(* which give build_number and build_string; for every other build-tag     *)
(* component, the empty string included, the File has no Wheel.            *)
(***************************************************************************)
C13_BuildTagOf(d, f) ==
    LET parts == WheelParts(d.file[f].filename)
        w == d.file[f].wheel
        n == LeadingDigits(parts[3])
    IN  IF n = 0 THEN w = NoWheel
        ELSE /\ w # NoWheel
             /\ w.build_tag \in DOMAIN d.build_tag
             /\ d.build_tag[w.build_tag].build_number = ToInt(SubSeq(parts[3], 1, n))
             /\ d.build_tag[w.build_tag].build_string =
                   SubSeq(parts[3], n + 1, Len(parts[3]))

C13_BuildTagGrammar ==
    \A d \in Stores : \A f \in DOMAIN d.file :
        ( /\ IsWheelName(d.file[f].filename)
          /\ Len(WheelParts(d.file[f].filename)) = 6 )
        => C13_BuildTagOf(d, f)

\* the same, but for the names whose build-tag component is empty
C13_ExceptEmpty ==
    \A d \in Stores : \A f \in DOMAIN d.file :
        ( /\ IsWheelName(d.file[f].filename)
          /\ Len(WheelParts(d.file[f].filename)) = 6
          /\ WheelParts(d.file[f].filename)[3] # <<>> )
        => C13_BuildTagOf(d, f)

\* a merge that stores a file with a rejected build tag creates no identity
\* row
C13_NoRowsForRejected ==
    \A s \in LocalSerial..RemoteSerial, n \in DocNames, name \in {Whl6Letter, Whl6LateDigit} :
        \A k \in DOMAIN hist :
            ( /\ hist[k].op = "apply"
              /\ hist[k].info.files = <<FileInfo(name, "u1", "False")>>
              /\ Replay(EmptyM, SubSeq(hist, 1, k)).merge_pc = "run" )
            => \A kind \in Kinds \ {"version"} :
                  Len(Replay(EmptyM, SubSeq(hist, 1, k)).db[kind]) = Len(Before(hist, k).db[kind])

(***************************************************************************)
(* The writer's loop over more documents than a batch: the add pass of a   *)
(* run on the empty store, from the point where the workers have fetched   *)
(* every document and left and the writer has yet to take the first one.   *)
(***************************************************************************)
DigitChars == <<"0", "1", "2", "3", "4", "5", "6", "7", "8", "9">>

RECURSIVE Decimal(_)
Decimal(k) ==
    IF k < 10 THEN <<DigitChars[k + 1]>>
    ELSE Append(Decimal(k \div 10), DigitChars[(k % 10) + 1])

BatchName(k) == <<"p">> \o Decimal(k)

\* how many documents the pass has to add: around one batch, and more than
\* two
BatchDocCounts == {BatchSize - 1, BatchSize, BatchSize + 1, 2 * BatchSize + 1}

BatchInit ==
    \E n \in BatchDocCounts :
    \E names \in {<<>> \o [k \in 1..n |-> BatchName(k)]} :
        /\ db = EmptyDb
        /\ committed = EmptyDb
        /\ cache = EmptyCache
        /\ loaded = AllLoaded
        /\ merge_pc = "run"
        /\ run_names = {}
        /\ hist = <<>>
        /\ run_pc = "add"
        /\ writer_exc = "None"
        /\ listing = <<>> \o [k \in 1..n |-> [name |-> names[k], last_serial |-> RemoteSerial]]
        /\ plan = [num_projects |-> n,
                   num_projects_to_update |-> 0, projects_to_update |-> <<>>,
                   num_projects_to_add |-> n, projects_to_add |-> names]
        /\ project_queue = [pass \in Passes |-> <<>>]
        /\ project_info_queue =
              [update |-> <<>>,
               add |-> <<>> \o [k \in 1..n |-> get_project(OkResponse(names[k])).ret]]
        /\ ready = [pass \in Passes |-> 0]
        /\ in_flight = [pass \in Passes |-> {}]
        /\ stopped = [pass \in Passes |-> NumWorkers]
        /\ dead = [pass \in Passes |-> 0]
        /\ num_updated_projects = 0
        /\ responses = [name \in Range(names) |-> OkResponse(name)]

BatchNext == WriterApply \/ WriterTimeout

SpecBatch == BatchInit /\ [][BatchNext]_vars

(***************************************************************************)
(* C14: at the end of every iteration of the writer's loop fewer than 100  *)
(* (the batch size) applied documents are uncommitted, and when            *)
(* process_updates returns every applied document is committed.            *)
(***************************************************************************)
C14_BatchBound ==
    /\ writer_exc = "None" =>
          /\ num_updated_projects = NumApplied(hist)
          /\ Len(db.project) = NumApplied(hist)
    /\ Len(db.project) - Len(committed.project) < BatchSize
    /\ (run_pc = "done" /\ writer_exc = "None") =>
          /\ committed = db
          /\ \A k \in DOMAIN hist :
                ProjectNamed(committed, hist[k].info.name) # {}

\* the second batch is one document short of its commit
C14_Witness ==
    /\ run_pc = "add"
    /\ NumApplied(hist) = 2 * BatchSize - 1
    /\ Len(committed.project) = BatchSize
    /\ Len(db.project) - Len(committed.project) = BatchSize - 1

(***************************************************************************)
(* C15: every Project row's name is in normalized form (it equals its own  *)
(* normalization), whatever spelling the document uses for the name.       *)
(***************************************************************************)
C15_NamesNormalized ==
    \A d \in Stores : \A p \in DOMAIN d.project :
        d.project[p].name = normalize(d.project[p].name)

(***************************************************************************)
(* C16: no two File rows share a filename, also when the documents of two  *)
(* projects list the same filename and when one document lists a filename  *)
(* twice.                                                                  *)
(***************************************************************************)
FileRows(d) == {f \in DOMAIN d.file : d.file[f].persisted}

C16_FilenamesUnique ==
    \A d \in Stores : \A f, g \in FileRows(d) :
        d.file[f].filename = d.file[g].filename => f = g

\* two projects listed the same filename, or one document listed it twice,
\* and the session was flushed since: one File row has the name
C16_Witness ==
    /\ Len(hist) >= 2
    /\ hist[Len(hist)].op = "commit"
    /\ hist[Len(hist) - 1].op = "apply"
    /\ \E k \in 1..(Len(hist) - 2) :
          /\ hist[k].op = "apply"
          /\ hist[k].info.name # hist[Len(hist) - 1].info.name
          /\ hist[k].info.files = <<FileInfo(Sdist1, "u1", "False")>>
          /\ hist[Len(hist) - 1].info.files =
                <<FileInfo(Sdist1, "u1", "False"), FileInfo(Sdist1, "u1", "False")>>
    /\ Cardinality({f \in FileRows(committed) : committed.file[f].filename = Sdist1}) = 1

(***************************************************************************)
(* C17: across update merges a Project's set of version strings and its    *)
(* set of filenames only grow, also when a later document omits a version  *)
(* or a file the Project has, and no Version, BuildTag, PythonTag, AbiTag   *)
(* or PlatformTag row is ever deleted.                                     *)
(***************************************************************************)
\* every identity row of d is a row of e, with its key
RowsKept(d, e) ==
    \A k \in Kinds :
        /\ Len(d[k]) <= Len(e[k])
        /\ \A i \in DOMAIN d[k] : KeyOf(k, e[k][i]) = KeyOf(k, d[k][i])

\* every Project of d is a Project of e with at least its versions and files
ProjectsGrow(d, e) ==
    \A p \in DOMAIN d.project :
        /\ p \in DOMAIN e.project
        /\ e.project[p].name = d.project[p].name
        /\ ProjectVersionStrs(d, p) \subseteq ProjectVersionStrs(e, p)
        /\ ProjectFilenames(d, p) \subseteq ProjectFilenames(e, p)

C17_Step ==
    /\ RowsKept(committed, committed')
    /\ ProjectsGrow(committed, committed')
    /\ (merge_pc' = "run" /\ hist'[Len(hist')].op = "apply") =>
          /\ RowsKept(db, db')
          /\ ProjectsGrow(db, db')

C17_OnlyGrows == [][C17_Step]_mergeVars

\* the last merge updated a committed Project with a document that omits a
\* version and a file the Project has
C17_Witness ==
    /\ merge_pc = "run"
    /\ hist # <<>>
    /\ hist[Len(hist)].op = "apply"
    /\ \E p \in ProjectNamed(committed, hist[Len(hist)].info.name) :
          /\ hist[Len(hist)].info.versions = <<V1>>
          /\ V2 \in ProjectVersionStrs(committed, p)
          /\ V2 \in ProjectVersionStrs(db, p)
          /\ Wheel5Name \in ProjectFilenames(committed, p)
          /\ Wheel5Name \in ProjectFilenames(db, p)
          /\ db.project[p].last_serial > committed.project[p].last_serial

(***************************************************************************)
(* C18: creating a Project from a document with n distinct version strings *)
(* and m distinct files, none of them a wheel, yields exactly one Project  *)
(* row, associated with n Version rows and owning m File rows, no Wheel,   *)
(* and last_serial equal to the document's serial.                         *)
(***************************************************************************)
Distinct(seq) == \A i, j \in DOMAIN seq : seq[i] = seq[j] => i = j

Filenames(files) == <<>> \o [k \in DOMAIN files |-> files[k].filename]

NoWheelDoc(i) ==
    /\ Distinct(i.versions)
    /\ Distinct(Filenames(i.files))
    /\ \A k \in DOMAIN i.files : ~IsWheelName(i.files[k].filename)

\* d is the store before with one more Project, made from document i
CreatedFrom(d, before, s, i) ==
    /\ Len(d.project) = Len(before.project) + 1
    /\ Let(Len(d.project), LAMBDA p :
          /\ d.project[p].name = i.name
          /\ d.project[p].last_serial = s
          /\ Cardinality(d.project[p].versions) = Len(i.versions)
          /\ d.project[p].versions \subseteq DOMAIN d.version
          /\ ProjectVersionStrs(d, p) = Range(i.versions)
          /\ Cardinality(ProjectFiles(d, p)) = Len(i.files)
          /\ ProjectFilenames(d, p) = Range(Filenames(i.files))
          /\ \A f \in ProjectFiles(d, p) : d.file[f].wheel = NoWheel)

\* the event at position k created a Project from a document without wheels
CreatesAt(k) ==
    /\ k \in DOMAIN hist
    /\ hist[k].op = "apply"
    /\ NoWheelDoc(hist[k].info)
    /\ ~IsUpdate(Before(hist, k), normalize(hist[k].info.name))

C18_CreateCounts ==
    merge_pc = "run" =>
        /\ CreatesAt(Len(hist)) =>
              CreatedFrom(db, Before(hist, Len(hist)).db,
                          hist[Len(hist)].serial, hist[Len(hist)].info)
        /\ (CreatesAt(Len(hist) - 1) /\ hist[Len(hist)].op = "commit") =>
              CreatedFrom(committed, Before(hist, Len(hist) - 1).db,
                          hist[Len(hist) - 1].serial, hist[Len(hist) - 1].info)

\* a Project created from two versions and two files is committed, next to
\* an earlier Project
C18_Witness ==
    /\ merge_pc = "run"
    /\ Len(hist) = 4
    /\ CreatesAt(3)
    /\ hist[4].op = "commit"
    /\ Len(hist[3].info.versions) = 2
    /\ Len(hist[3].info.files) = 2
    /\ Len(committed.project) = 2
    /\ Cardinality(ProjectFiles(committed, 2)) = 2

(***************************************************************************)
(* C19: fetch workers never change the store or an identity cache; every   *)
(* cache addition and every store write is made by the writer inside the   *)
(* loop of process_updates, and the writer of one pass at a time.          *)
(***************************************************************************)
\* the step is one of a fetch worker: it takes a name from the work queue
\* or receives a response
WorkerStep ==
    \/ responses' # responses
    \/ in_flight' # in_flight
    \/ stopped' # stopped
    \/ dead' # dead

\* the step is one of the writer of the given pass: an iteration of its
\* loop, or the commit after the break
WriterStep(pass) ==
    /\ run_pc = pass
    /\ writer_exc = "None"
    /\ ~WorkerStep

C19_Step ==
    /\ WorkerStep => UNCHANGED <<db, committed, cache, hist, num_updated_projects>>
    /\ (db' # db \/ committed' # committed \/ cache' # cache) =>
          /\ \E pass \in Passes : WriterStep(pass)
          /\ \A pass \in Passes \ {run_pc} : project_info_queue'[pass] = project_info_queue[pass]

C19_OnlyWriterWrites == [][C19_Step]_vars

\* a worker receives a document while the session holds the uncommitted
\* merge of another
C19_Witness ==
    /\ db # committed
    /\ \E pass \in Passes :
          /\ project_info_queue[pass] # <<>>
          /\ in_flight[pass] # {}
          /\ ~Applied(project_info_queue[pass][1][2].name)

(***************************************************************************)
(* C20: after from_str has returned for a key of any kind, on any path     *)
(* (cache hit, found in the store, newly constructed), the cache maps the  *)
(* key to the id of the key's row, so that the next from_str of the key is *)
(* a cache hit.                                                            *)
(***************************************************************************)
C20_CacheHoldsRowId ==
    \A k \in Kinds : \A key \in DOMAIN cache[k] :
        /\ get_id(cache[k], key) # None
        /\ \E i \in DOMAIN db[k] :
              /\ KeyOf(k, db[k][i]) = key
              /\ get_id(cache[k], key) = i

\* the same for the keys that were not newly constructed in this process
C20_ExceptConstructed ==
    \A k \in Kinds : \A key \in DOMAIN cache[k] :
        get_id(cache[k], key) # None =>
            \E i \in DOMAIN db[k] :
                /\ KeyOf(k, db[k][i]) = key
                /\ db[k][i].id = get_id(cache[k], key)

(***************************************************************************)
(* The preload: a process starts on a store that an earlier run filled,    *)
(* calls init_db (and with it load_tag_caches) before it merges anything,  *)
(* and may call it again later.                                            *)
(***************************************************************************)
MaxLoads == 2

NumLoads(events) == Cardinality({i \in DOMAIN events : events[i].op = "load"})

LoadInit ==
    \E first \in FirstRuns : \E store \in {Replay(EmptyM, first).committed} :
        /\ RunIdle
        /\ hist = <<>>
        /\ db = store
        /\ committed = store
        /\ cache = EmptyCache
        /\ loaded = NotLoaded
        /\ merge_pc = "run"
        /\ run_names = {}

\* init_db: the Session factory and load_tag_caches on a session of its own
LoadCall ==
    /\ NumLoads(hist) < MaxLoads
    /\ Do(LoadEvent)

LoadApply ==
    /\ NumApplied(hist) < MaxDocOps
    /\ \E s \in 1..MaxSerial, i \in ProjectInfos : Do(ApplyEvent(s, i))

LoadNext == LoadCall \/ LoadApply \/ Commit \/ InitDb

SpecLoad == LoadInit /\ [][LoadNext]_vars

(***************************************************************************)
(* C21: the bulk preload runs at most once per process: a call of          *)
(* load_tag_caches in a process whose caches are loaded changes nothing;   *)
(* and right after the preload the mapping of each of the five kinds is    *)
(* the set of (key, id) pairs stored in the kind's table.                  *)
(***************************************************************************)
MappingPairs(known_tags) == {<<key, known_tags[key]>> : key \in DOMAIN known_tags}

C21_Step ==
    /\ hist' = Append(hist, LoadEvent) =>
          IF loaded["version"]
          THEN UNCHANGED <<db, committed, cache, loaded>>
          ELSE /\ \A k \in Kinds :
                     /\ loaded'[k]
                     /\ MappingPairs(cache'[k]) = StoredPairs(committed, k)
               /\ cache' = LoadTagCaches(committed)
               /\ UNCHANGED <<db, committed>>
    /\ (loaded["version"] /\ ~loaded'["version"]) => merge_pc' = "crashed"

C21_PreloadOnce == [][C21_Step]_vars

\* load_tag_caches was called a second time after the process committed a
\* merge that added identity rows: the caches are not those of a preload
C21_Witness ==
    /\ Len(hist) = 4
    /\ hist[1] = LoadEvent
    /\ hist[2].op = "apply"
    /\ hist[3] = CommitEvent
    /\ hist[4] = LoadEvent
    /\ merge_pc = "run"
    /\ \E k \in Kinds : MappingPairs(cache[k]) # StoredPairs(committed, k)

(***************************************************************************)
(* A sync run on the empty store whose listing has more names than the     *)
(* pool has workers and one to spare: the add pass has to fetch them all.  *)
(***************************************************************************)
LongListing == Listed(NumWorkers + 2)

LongInit ==
    /\ db = EmptyDb
    /\ committed = EmptyDb
    /\ cache = EmptyCache
    /\ loaded = AllLoaded
    /\ merge_pc = "run"
    /\ run_names = {}
    /\ hist = <<>>
    /\ RunIdle

LongFind == FindProjects({LongListing})

LongNext ==
    \/ LongFind
    \/ \E pass \in Passes : WorkerGet(pass)
    \/ \E pass \in Passes : WorkerFetch(pass)
    \/ WriterApply
    \/ WriterTimeout

SpecLong == LongInit /\ [][LongNext]_vars

(***************************************************************************)
(* C22: process_updates terminates whatever the fetches come to: once no   *)
(* worker of the pass is left and the result queue is drained, the         *)
(* writer's next poll timeout ends its loop, also when names remain in the *)
(* work queue.  (The iteration ends the loop by the break when the work    *)
(* queue is empty; it leaves it by the exception of the progress line when *)
(* nothing has been processed; in every other case it changes nothing and  *)
(* the loop goes on as before.)                                            *)
(***************************************************************************)
NoWorkerLeft(pass) == ready[pass] = 0 /\ in_flight[pass] = {}

\* the writer's timeout iteration neither breaks nor raises
TimeoutLoops(pass) ==
    /\ project_queue[pass] # <<>>
    /\ num_updated_projects % BatchSize # 0

C22_WriterTerminates ==
    \A pass \in Passes :
        ( /\ run_pc = pass
          /\ writer_exc = "None"
          /\ Started(pass)
          /\ NoWorkerLeft(pass)
          /\ project_info_queue[pass] = <<>> )
        => ~TimeoutLoops(pass)

(***************************************************************************)
(* C23: the writer commits a batch and reports progress only in the        *)
(* iteration in which the processed count has just reached a positive      *)
(* multiple of the batch size, and it never evaluates elapsed / percent    *)
(* while nothing has been processed, also not on a poll timeout with names *)
(* left in the work queue: the progress line never divides by zero.        *)
(***************************************************************************)
C23_ProgressAfterBatchOnly == writer_exc # "ZeroDivisionError"

(***************************************************************************)
(* C24: at every moment of a sync run at most 4 (the pool size) detail     *)
(* fetches are in flight, also at the hand-over from the update pass to    *)
(* the add pass.                                                           *)
(***************************************************************************)
FetchesInFlight == Cardinality(in_flight["update"]) + Cardinality(in_flight["add"])

C24_PoolBound == FetchesInFlight <= NumWorkers

\* the same within each pass
C24_PoolBoundPerPass == \A pass \in Passes : Cardinality(in_flight[pass]) <= NumWorkers

(***************************************************************************)
(* C25: in every committed state of the store, a Project's last_serial and *)
(* the versions and files of the document that carried that serial were    *)
(* committed together: the committed Project is the Project as a completed *)
(* merge of a document left it, with that document's serial and with every *)
(* version and every file of that document, never the Project of a merge   *)
(* that was under way, and never new versions or files under the older     *)
(* serial.                                                                 *)
(***************************************************************************)
\* the state the events up to position k lead to
After(events, k) == Replay(EmptyM, SubSeq(events, 1, k))

\* the committed Project p is as the merge of the document of event k left it
C25_CarriedBy(p, k) ==
    /\ hist[k].info.name = committed.project[p].name
    /\ hist[k].serial = committed.project[p].last_serial
    /\ Range(hist[k].info.versions) \subseteq ProjectVersionStrs(committed, p)
    /\ {hist[k].info.files[i].filename : i \in DOMAIN hist[k].info.files}
          \subseteq ProjectFilenames(committed, p)
    /\ \E M \in {After(hist, k)} :
          /\ M.merge_pc = "run"
          /\ p \in DOMAIN M.db.project
          /\ ProjectState(committed, p) = ProjectState(M.db, p)

C25_SerialWithContents ==
    \A p \in DOMAIN committed.project : \E k \in Applies(hist) : C25_CarriedBy(p, k)

\* a commit has just stored the update of a committed Project by a document
\* with a greater serial, a new version and a new file
C25_Witness ==
    /\ hist # <<>>
    /\ hist[Len(hist)].op = "commit"
    /\ merge_pc = "run"
    /\ db = committed
    /\ Applies(hist) # {}
    /\ \E k \in {Max(Applies(hist))} : \E old \in {Before(hist, k).committed} :
       \E p \in ProjectNamed(old, hist[k].info.name) :
          /\ hist[k].serial > old.project[p].last_serial
          /\ committed.project[p].last_serial = hist[k].serial
          /\ V2 \notin ProjectVersionStrs(old, p)
          /\ V2 \in ProjectVersionStrs(committed, p)
          /\ Wheel5Name \notin ProjectFilenames(old, p)
          /\ Wheel5Name \in ProjectFilenames(committed, p)

\* the same in a sync run: a committed Project has the local serial with
\* exactly the contents of the document the store was filled from, or the
\* remote serial with exactly the contents of the document served now
C25_DocState(p, serial, doc) ==
    /\ committed.project[p].last_serial = serial
    /\ committed.project[p].status = doc.status
    /\ ProjectVersionStrs(committed, p) = Range(doc.versions)
    /\ ProjectFilenames(committed, p) = {doc.files[i].filename : i \in DOMAIN doc.files}

C25_RunSerialWithContents ==
    \A p \in DOMAIN committed.project :
        \E k \in DOMAIN Letters :
            \/ C25_DocState(p, LocalSerial, LocalDoc(NameOf(k)))
            \/ C25_DocState(p, RemoteSerial, RemoteDoc(NameOf(k)))
====
